---- MODULE Spec2Model ----
(***************************************************************************)
(* A model of syscap.py: the capture procedure (SysCap.backup), the phase  *)
(* file lists (SysCap._buildFileLists), the diff procedure                 *)
(* (SysCap.rundiff) and the dispatch in main.                              *)
(*                                                                         *)
(* File names are sequences of characters, so that the phase suffix, the   *)
(* glob pattern and os.path.splitext are computed and not assumed.  The    *)
(* data directory is a function from the names of the files it holds to    *)
(* their content; a content is a sequence of text pieces.  Names stand for *)
(* entries of the data directory: the common prefix data_dir + '/' of      *)
(* every path the code builds is left out.                                 *)
(***************************************************************************)
EXTENDS Integers, Sequences, FiniteSets, TLC

VARIABLES
    files,          \* the data directory: name -> content
    dirExists,      \* os.path.isdir(self.data_dir)
    config,         \* the parsed content of the config file (when it parses)
    cfgFile,        \* state of the config file: "missing", "badjson", "valid"
    cfgMode,        \* permission bits of the config file
    existing,       \* the 'require' paths that exist on the host
    host,           \* the state of the host: decides what commands print and
                    \* what the source files hold
    runs,           \* number of invocations of main so far
    pc,             \* position of the current invocation
    phase,          \* self.phase
    overwrite,      \* self.overwrite
    diff_against,   \* args.diff_against
    post_phase,     \* self.post_phase
    pre_phase,      \* self.pre_phase
    gi,             \* index of the current command group
    ci,             \* index of the current sub_command
    fi,             \* index of the current file_list entry
    write_to_file,  \* the text built for the current group
    pre_files,      \* rundiff / _buildFileLists results
    post_files,
    missing_files,
    diffed,         \* the diff command lines rundiff has run
    snapshot,       \* history: the data directory when the invocation began
    completed,      \* history: phases whose capture returned in an earlier run
    captured,       \* history: backup() returned in this invocation
    executed,       \* history: the commands sproc.run was called for, in order
    disp,           \* history: what the run did with each group
    written         \* history: who wrote which name in this invocation

vars == << files, dirExists, config, cfgFile, cfgMode, existing, host, runs, pc, phase,
           overwrite, diff_against, post_phase, pre_phase, gi, ci, fi,
           write_to_file, pre_files, post_files, missing_files, diffed,
           snapshot, completed, captured, executed, disp, written >>

----------------------------------------------------------------------------
(* Bounds *)

\* invocations of main in one behaviour
MaxRuns == 2
\* files in the data directory handed to _buildFileLists on its own
MaxDirFiles == 3

----------------------------------------------------------------------------
(* Names and contents *)

Dot == "."

\* an option that was not given, an attribute that was never assigned
NoPhase == <<>>
NoDiff == <<>>
Unset == <<>>
NoRequire == "none"

\* f'{x}.{phase}'
Join(base, ph) == base \o <<Dot>> \o ph

EmptyDir == [n \in {} |-> <<>>]

IsFile(fs, n) == n \in DOMAIN fs

Phases == { <<"p">>, <<"q">> }

\* the states of the host a capture can meet
HostStates == { "s1", "s2" }

\* what a command prints on stdout in a state of the host
Stdout(cmd, h) == <<"out:", cmd, h>>

\* what a source file holds in a state of the host
SrcContent(infile, h) == << <<"src:", infile.dir, h>> >>

\* permission bits a config file may carry: 0640, and 0666 with the group and
\* world write bits
Modes == { 416, 438 }

----------------------------------------------------------------------------
(* The capture specification the config file holds *)

Group(req, ex, out) == [require |-> req, exec |-> ex, outfile |-> out]
Path(d, b) == [dir |-> d, base |-> b]

\* os.path.basename(infile)
Basename(infile) == infile.base

\* one group of two commands, guarded by 'require', and one file to copy
ConfigA ==
    [command_groups |-> << Group("/r", <<"c1", "c2">>, <<"a">>) >>,
     file_list |-> << Path("/etc", <<"h">>) >>]

\* two groups sharing an outfile, a group that runs nothing, a file whose
\* basename is a group's outfile and a file whose basename ends in a phase tag
ConfigB ==
    [command_groups |-> << Group("/r", <<"c1">>, <<"a">>),
                           Group(NoRequire, <<"c2">>, <<"a">>),
                           Group(NoRequire, <<>>, <<"b">>) >>,
     file_list |-> << Path("/x", <<"a">>), Path("/y", <<"a", ".", "p">>) >>]

\* neither command groups nor files
ConfigC == [command_groups |-> <<>>, file_list |-> <<>>]

Configs == { ConfigA, ConfigB, ConfigC }

RequirePaths == { "/r" }

----------------------------------------------------------------------------
(* Text written to artifacts *)

\* '## ' + str(group) + '\n'
Header(group) ==
    <<"## ", group.require>> \o group.exec \o group.outfile \o <<"\n">>

\* cmd.stdout + '\n'
StdoutPiece(out) == out \o <<"\n">>

\* os.path.join(self.data_dir, group['outfile'] + f'.{self.phase}')
Outfile(group, ph) == Join(group.outfile, ph)

\* CopyDest with the phase suffix forgotten: shutil.copy2(infile, outfile)
CopyDestNoPhase(infile, ph) == Basename(infile)

\* the destination shutil.copy2 is given: f'{outfile}.{self.phase}'
CopyDest(infile, ph) == Join(Basename(infile), ph)

\* the path the file loop tests with os.path.isfile before it copies
CopyGuardPath(infile, ph) == Basename(infile)

Put(fs, n, c) == [m \in (DOMAIN fs) \cup {n} |-> IF m = n THEN c ELSE fs[m]]

\* WriteFile with the file opened for appending: open(outfile, 'a')
WriteFileAppend(fs, n, text) ==
    Put(fs, n, IF IsFile(fs, n) THEN fs[n] \o text ELSE text)

\* with open(outfile, 'w') as outfile_stream: outfile_stream.write(text)
WriteFile(fs, n, text) == Put(fs, n, text)

\* RequireOk with the existence test dropped: 'require' in group or
\* 'require' not in group
RequireOkUntested(group, paths) ==
    group.require # NoRequire \/ group.require = NoRequire

\* ('require' in group and os.path.exists(group['require']) or
\*  'require' not in group)
RequireOk(group, paths) ==
    \/ group.require # NoRequire /\ group.require \in paths
    \/ group.require = NoRequire

\* not os.path.isfile(outfile) or self.overwrite
MayWrite(fs, n, ow) == ~IsFile(fs, n) \/ ow

\* what sproc.run returns: the exit code and what the command printed
CmdOutcomes(cmd) == { [rc |-> r, stdout |-> Stdout(cmd, host)] : r \in {0, 1} }

\* the exit code recorded for a command that could not be started
NotStarted == 0 - 1

----------------------------------------------------------------------------
(* The state before the first invocation *)

Terminal == { "done", "exit1", "crashed" }

Groups == config.command_groups
FileList == config.file_list

Pending == [i \in 1..Len(Groups) |-> "pending"]

\* os.chmod(self.config, 0o640): the mode initialise gives the config file
InitialisedMode == 416

InitWith(modes) ==
    /\ files = EmptyDir
    /\ dirExists = FALSE
    /\ config \in Configs
    /\ cfgFile = "valid"
    /\ cfgMode \in modes
    /\ existing = {}
    /\ host = "s1"
    /\ runs = 0
    /\ pc = "idle"
    /\ phase = NoPhase
    /\ overwrite = FALSE
    /\ diff_against = NoDiff
    /\ post_phase = Unset
    /\ pre_phase = Unset
    /\ gi = 0
    /\ ci = 0
    /\ fi = 0
    /\ write_to_file = <<>>
    /\ pre_files = <<>>
    /\ post_files = <<>>
    /\ missing_files = <<>>
    /\ diffed = <<>>
    /\ snapshot = EmptyDir
    /\ completed = {}
    /\ captured = FALSE
    /\ executed = <<>>
    /\ disp = Pending
    /\ written = {}

\* the config file is the one initialise wrote
Init == InitWith({InitialisedMode})

\* the config file carries any of the modes
InitPerm == InitWith(Modes)

----------------------------------------------------------------------------
(* main *)

\* the states the config file can be in when an invocation starts
CfgStates == { "missing", "badjson", "valid" }

\* main: parse the arguments, build the SysCap object, dispatch: backup when
\* a phase was given, then rundiff when -d was given (the diff of a phase
\* against itself is not among the inputs tried)
Start ==
    /\ pc = "idle"
    /\ runs < MaxRuns
    /\ runs' = runs + 1
    /\ \E ph \in Phases \cup {NoPhase} :
       \E ow \in BOOLEAN, d \in (Phases \ {ph}) \cup {NoDiff},
          cf \in CfgStates, ex \in SUBSET RequirePaths, h \in HostStates :
          /\ phase' = ph
          /\ host' = h
          /\ overwrite' = ow
          /\ diff_against' = d
          /\ cfgFile' = cf
          /\ existing' = ex
          /\ pc' = IF ph # NoPhase THEN "loadConfig"
                   ELSE IF d # NoDiff THEN "rundiff" ELSE "done"
    /\ UNCHANGED << files, dirExists, config, cfgMode, post_phase, pre_phase, gi, ci, fi,
                    write_to_file, pre_files, post_files, missing_files, diffed,
                    snapshot, completed, captured, executed, disp, written >>

\* the process ends (return 0, sys.exit(1) or an uncaught exception): the
\* object is gone, the data directory stays
Exit ==
    /\ pc \in Terminal
    /\ pc' = "idle"
    /\ phase' = NoPhase
    /\ overwrite' = FALSE
    /\ diff_against' = NoDiff
    /\ cfgFile' = "valid"
    /\ existing' = {}
    /\ host' = "s1"
    /\ post_phase' = Unset
    /\ pre_phase' = Unset
    /\ gi' = 0 /\ ci' = 0 /\ fi' = 0
    /\ write_to_file' = <<>>
    /\ pre_files' = <<>> /\ post_files' = <<>> /\ missing_files' = <<>>
    /\ diffed' = <<>>
    /\ snapshot' = files
    /\ completed' = IF captured THEN completed \cup {phase} ELSE completed
    /\ captured' = FALSE
    /\ executed' = <<>>
    /\ disp' = Pending
    /\ written' = {}
    /\ UNCHANGED << files, dirExists, config, cfgMode, runs >>

----------------------------------------------------------------------------
(* SysCap._loadConfig and SysCap._createOutputStructure *)

histUnchanged == UNCHANGED << snapshot, completed >>
optsUnchanged ==
    UNCHANGED << config, cfgFile, cfgMode, existing, host, runs, phase, overwrite,
                 diff_against, post_phase >>
diffUnchanged ==
    UNCHANGED << pre_phase, pre_files, post_files, missing_files, diffed >>

\* open() raises OSError, or json.load raises JSONDecodeError: sys.exit(1)
LoadConfigFail ==
    /\ pc = "loadConfig"
    /\ cfgFile \in {"missing", "badjson"}
    /\ pc' = "exit1"
    /\ UNCHANGED << files, dirExists, gi, ci, fi, write_to_file, captured,
                    executed, disp, written >>
    /\ histUnchanged /\ optsUnchanged /\ diffUnchanged

\* the file opens and parses; the data directory exists or is created
LoadConfigOk ==
    /\ pc = "loadConfig"
    /\ cfgFile = "valid"
    /\ dirExists' = TRUE
    /\ pc' = "groups"
    /\ gi' = 1
    /\ UNCHANGED << files, ci, fi, write_to_file, captured, executed, disp,
                    written >>
    /\ histUnchanged /\ optsUnchanged /\ diffUnchanged

\* os.makedirs raises OSError: sys.exit(1)
LoadConfigMkdirFail ==
    /\ pc = "loadConfig"
    /\ cfgFile = "valid"
    /\ ~dirExists
    /\ pc' = "exit1"
    /\ UNCHANGED << files, dirExists, gi, ci, fi, write_to_file, captured,
                    executed, disp, written >>
    /\ histUnchanged /\ optsUnchanged /\ diffUnchanged

----------------------------------------------------------------------------
(* SysCap.backup: the command groups *)

\* the group's 'require' path does not exist: the group is passed over
GroupRequireSkip ==
    /\ pc = "groups"
    /\ gi <= Len(Groups)
    /\ ~RequireOk(Groups[gi], existing)
    /\ write_to_file' = <<Header(Groups[gi])>>
    /\ disp' = [disp EXCEPT ![gi] = "reqskip"]
    /\ gi' = gi + 1
    /\ UNCHANGED << files, dirExists, pc, ci, fi, captured, executed, written >>
    /\ histUnchanged /\ optsUnchanged /\ diffUnchanged

\* the outfile exists and overwrite was not given: warning, next group
GroupExistsSkip ==
    /\ pc = "groups"
    /\ gi <= Len(Groups)
    /\ RequireOk(Groups[gi], existing)
    /\ ~MayWrite(files, Outfile(Groups[gi], phase), overwrite)
    /\ write_to_file' = <<Header(Groups[gi])>>
    /\ disp' = [disp EXCEPT ![gi] = "existskip"]
    /\ gi' = gi + 1
    /\ UNCHANGED << files, dirExists, pc, ci, fi, captured, executed, written >>
    /\ histUnchanged /\ optsUnchanged /\ diffUnchanged

\* the group is run: enter the loop over its exec list
GroupBegin ==
    /\ pc = "groups"
    /\ gi <= Len(Groups)
    /\ RequireOk(Groups[gi], existing)
    /\ MayWrite(files, Outfile(Groups[gi], phase), overwrite)
    /\ write_to_file' = <<Header(Groups[gi])>>
    /\ disp' = [disp EXCEPT ![gi] = "ran"]
    /\ IF Len(Groups[gi].exec) = 0
          THEN gi' = gi + 1 /\ UNCHANGED << pc, ci >>
          ELSE pc' = "exec" /\ ci' = 1 /\ UNCHANGED gi
    /\ UNCHANGED << files, dirExists, fi, captured, executed, written >>
    /\ histUnchanged /\ optsUnchanged /\ diffUnchanged

\* write_to_file after the command has returned
Built(text, outcome) ==
    IF outcome.rc = 0 THEN Append(text, StdoutPiece(outcome.stdout)) ELSE text

\* the loop's next position after the iteration for sub_command ci
Advance ==
    IF ci < Len(Groups[gi].exec)
       THEN ci' = ci + 1 /\ UNCHANGED << pc, gi >>
       ELSE pc' = "groups" /\ gi' = gi + 1 /\ UNCHANGED ci

Ran(outcome) == [g |-> gi, c |-> ci, rc |-> outcome.rc, stdout |-> outcome.stdout]

\* one iteration: run the sub_command, then write the whole text to outfile
ExecCommand ==
    /\ pc = "exec"
    /\ \E outcome \in CmdOutcomes(Groups[gi].exec[ci]) :
          /\ write_to_file' = Built(write_to_file, outcome)
          /\ files' = WriteFile(files, Outfile(Groups[gi], phase),
                                Built(write_to_file, outcome))
          /\ executed' = Append(executed, Ran(outcome))
    /\ written' = written \cup { << <<"group", gi>>, Outfile(Groups[gi], phase) >> }
    /\ Advance
    /\ UNCHANGED << dirExists, fi, captured, disp >>
    /\ histUnchanged /\ optsUnchanged /\ diffUnchanged

\* sproc.run raises (the program is not there): nothing catches it
ExecSpawnError ==
    /\ pc = "exec"
    /\ executed' = Append(executed, [g |-> gi, c |-> ci, rc |-> NotStarted,
                                     stdout |-> <<>>])
    /\ pc' = "crashed"
    /\ UNCHANGED << files, dirExists, gi, ci, fi, write_to_file, captured, disp,
                    written >>
    /\ histUnchanged /\ optsUnchanged /\ diffUnchanged

\* open(outfile, 'w') raises OSError outside the try: nothing catches it
ExecOpenError ==
    /\ pc = "exec"
    /\ \E outcome \in CmdOutcomes(Groups[gi].exec[ci]) :
          /\ write_to_file' = Built(write_to_file, outcome)
          /\ executed' = Append(executed, Ran(outcome))
    /\ pc' = "crashed"
    /\ UNCHANGED << files, dirExists, gi, ci, fi, captured, disp, written >>
    /\ histUnchanged /\ optsUnchanged /\ diffUnchanged

\* the file was opened (and so truncated), write raises OSError: sys.exit(1)
ExecWriteError ==
    /\ pc = "exec"
    /\ \E outcome \in CmdOutcomes(Groups[gi].exec[ci]) :
          /\ write_to_file' = Built(write_to_file, outcome)
          /\ executed' = Append(executed, Ran(outcome))
    /\ files' = Put(files, Outfile(Groups[gi], phase), <<>>)
    /\ written' = written \cup { << <<"group", gi>>, Outfile(Groups[gi], phase) >> }
    /\ pc' = "exit1"
    /\ UNCHANGED << dirExists, gi, ci, fi, captured, disp >>
    /\ histUnchanged /\ optsUnchanged /\ diffUnchanged

\* the for loop over the groups is over (or there were none)
GroupsDone ==
    /\ pc = "groups"
    /\ gi > Len(Groups)
    /\ pc' = "files"
    /\ fi' = 1
    /\ UNCHANGED << files, dirExists, gi, ci, write_to_file, captured, executed,
                    disp, written >>
    /\ histUnchanged /\ optsUnchanged /\ diffUnchanged

----------------------------------------------------------------------------
(* SysCap.backup: the file list *)

\* os.path.isfile(infile) and (not os.path.isfile(outfile) or self.overwrite)
CopyGuard(srcExists, infile) ==
    srcExists /\ MayWrite(files, CopyGuardPath(infile, phase), overwrite)

\* shutil.copy2(infile, f'{outfile}.{self.phase}')
CopyFile ==
    /\ pc = "files"
    /\ fi <= Len(FileList)
    /\ CopyGuard(TRUE, FileList[fi])
    /\ files' = Put(files, CopyDest(FileList[fi], phase),
                     SrcContent(FileList[fi], host))
    /\ written' = written \cup { << <<"file", fi>>, CopyDest(FileList[fi], phase) >> }
    /\ fi' = fi + 1
    /\ UNCHANGED << dirExists, pc, gi, ci, write_to_file, captured, executed, disp >>
    /\ histUnchanged /\ optsUnchanged /\ diffUnchanged

\* shutil.copy2 raises OSError before it wrote anything: sys.exit(1)
CopyError ==
    /\ pc = "files"
    /\ fi <= Len(FileList)
    /\ CopyGuard(TRUE, FileList[fi])
    /\ pc' = "exit1"
    /\ UNCHANGED << files, dirExists, gi, ci, fi, write_to_file, captured,
                    executed, disp, written >>
    /\ histUnchanged /\ optsUnchanged /\ diffUnchanged

\* the source is missing, or the tested path exists and -o was not given
CopySkip ==
    /\ pc = "files"
    /\ fi <= Len(FileList)
    /\ \E srcExists \in BOOLEAN : ~CopyGuard(srcExists, FileList[fi])
    /\ fi' = fi + 1
    /\ UNCHANGED << files, dirExists, pc, gi, ci, write_to_file, captured,
                    executed, disp, written >>
    /\ histUnchanged /\ optsUnchanged /\ diffUnchanged

\* backup returns to main, which goes on with the diff when -d was given
FilesDone ==
    /\ pc = "files"
    /\ fi > Len(FileList)
    /\ captured' = TRUE
    /\ pc' = IF diff_against # NoDiff THEN "rundiff" ELSE "done"
    /\ UNCHANGED << files, dirExists, gi, ci, fi, write_to_file, executed, disp,
                    written >>
    /\ histUnchanged /\ optsUnchanged /\ diffUnchanged

----------------------------------------------------------------------------
(* SysCap._buildFileLists *)

EndsWith(n, suf) ==
    /\ Len(n) >= Len(suf)
    /\ SubSeq(n, Len(n) - Len(suf) + 1, Len(n)) = suf

\* glob's match of a directory entry against '*.<ph>': the entry ends in
\* '.<ph>', and an entry that starts with a dot is hidden from '*'
GlobMatch(n, ph) == EndsWith(n, <<Dot>> \o ph) /\ n[1] # Dot

\* the sequences without repetition of the elements of S
Orderings(S) ==
    { s \in [1..Cardinality(S) -> S] : \A i, j \in DOMAIN s : s[i] = s[j] => i = j }

\* glob(f'{data_dir}/*.{ph}'): the matching entries, in the order the
\* directory happens to list them
GlobResults(fs, ph) == Orderings({ n \in DOMAIN fs : GlobMatch(n, ph) })

LastDot(n) ==
    IF \E i \in 1..Len(n) : n[i] = Dot
       THEN CHOOSE i \in 1..Len(n) :
              n[i] = Dot /\ \A j \in (i + 1)..Len(n) : n[j] # Dot
       ELSE 0

\* os.path.splitext(i)[0]: cut at the last dot of the name, unless only dots
\* come before it
Splitext(n) ==
    IF LastDot(n) > 0 /\ \E k \in 1..(LastDot(n) - 1) : n[k] # Dot
       THEN SubSeq(n, 1, LastDot(n) - 1)
       ELSE n

NotIn(s, x) == \A i \in 1..Len(s) : s[i] # x

Stripped(l) == [i \in 1..Len(l) |-> Splitext(l[i])]

\* [file for file in pre_files if file not in post_files], then the same
\* the other way round, appended
MissingFiles(pre, post) ==
    SelectSeq(pre, LAMBDA f : NotIn(post, f)) \o
    SelectSeq(post, LAMBDA f : NotIn(pre, f))

\* the tuple (pre_files, post_files, missing_files), from what the two globs
\* returned
BuildFileLists(globPre, globPost) ==
    << Stripped(globPre), Stripped(globPost),
       MissingFiles(Stripped(globPre), Stripped(globPost)) >>

----------------------------------------------------------------------------
(* SysCap.rundiff *)

\* the pre_file entries for which the inner loop finds an equal post_file
MatchedFiles(pre, post) == SelectSeq(pre, LAMBDA f : ~NotIn(post, f))

\* the two files each diff command is given
DiffLines(pre, post, prePh, ph) ==
    [i \in 1..Len(MatchedFiles(pre, post)) |->
        << Join(MatchedFiles(pre, post)[i], prePh),
           Join(MatchedFiles(pre, post)[i], ph) >>]

\* RunDiff with the diff output saved into the data directory
RunDiffSavesOutput ==
    /\ pc = "rundiff"
    /\ pre_phase' = diff_against
    /\ files' = Put(files, Join(<<"d", "i", "f", "f">>, diff_against), <<>>)
    /\ pc' = "done"
    /\ UNCHANGED << pre_files, post_files, missing_files, diffed, dirExists, gi,
                    ci, fi, write_to_file, captured, executed, disp, written >>
    /\ histUnchanged /\ optsUnchanged

\* rundiff: self.pre_phase is assigned, then the arguments of _buildFileLists
\* are evaluated, self.post_phase among them.  No statement of the program
\* assigns self.post_phase, so the read raises AttributeError, which nothing
\* catches.  Were it assigned, the file lists would be built and the loop
\* would run diff on the matched files, leaving on an OSError.
RunDiff ==
    /\ pc = "rundiff"
    /\ pre_phase' = diff_against
    /\ IF post_phase = Unset
          THEN /\ pc' = "crashed"
               /\ UNCHANGED << pre_files, post_files, missing_files, diffed >>
          ELSE \E globPre \in GlobResults(files, diff_against),
                  globPost \in GlobResults(files, post_phase) :
                  /\ pre_files' = BuildFileLists(globPre, globPost)[1]
                  /\ post_files' = BuildFileLists(globPre, globPost)[2]
                  /\ missing_files' = BuildFileLists(globPre, globPost)[3]
                  /\ \E k \in 0..Len(MatchedFiles(pre_files', post_files')) :
                        /\ diffed' = SubSeq(DiffLines(pre_files', post_files',
                                                      diff_against, phase), 1, k)
                        /\ pc' = IF k = Len(MatchedFiles(pre_files', post_files'))
                                    THEN "done" ELSE "exit1"
    /\ UNCHANGED << files, dirExists, gi, ci, fi, write_to_file, captured,
                    executed, disp, written >>
    /\ histUnchanged /\ optsUnchanged

----------------------------------------------------------------------------
(* The program: any number of invocations, one after the other *)

Next ==
    \/ Start
    \/ Exit
    \/ LoadConfigFail
    \/ LoadConfigOk
    \/ LoadConfigMkdirFail
    \/ GroupRequireSkip
    \/ GroupExistsSkip
    \/ GroupBegin
    \/ ExecCommand
    \/ ExecSpawnError
    \/ ExecOpenError
    \/ ExecWriteError
    \/ GroupsDone
    \/ CopyFile
    \/ CopyError
    \/ CopySkip
    \/ FilesDone
    \/ RunDiff

Spec == Init /\ [][Next]_vars

\* the same program, whatever the permission bits of the config file
SpecPerm == InitPerm /\ [][Next]_vars

----------------------------------------------------------------------------
(* _buildFileLists on its own: a static method, called with a data        *)
(* directory and two phase tags                                            *)

MatchBases == { <<"a">>, <<"b">>, <<Dot, "h">> }
MatchPhases == { <<"p">>, <<"q">>, <<"v", Dot, "p">>, <<"w", Dot, "p">> }
MatchNames == { Join(b, ph) : b \in MatchBases, ph \in MatchPhases }

InitMatch ==
    /\ \E D \in SUBSET MatchNames :
          /\ Cardinality(D) <= MaxDirFiles
          /\ files = [n \in D |-> <<>>]
    /\ dirExists = TRUE
    /\ config = ConfigC
    /\ cfgFile = "valid"
    /\ cfgMode = InitialisedMode
    /\ existing = {}
    /\ host = "s1"
    /\ runs = 0
    /\ pc = "buildFileLists"
    /\ phase = NoPhase
    /\ overwrite = FALSE
    /\ diff_against = NoDiff
    /\ pre_phase \in MatchPhases
    /\ post_phase \in MatchPhases
    /\ gi = 0
    /\ ci = 0
    /\ fi = 0
    /\ write_to_file = <<>>
    /\ pre_files = <<>>
    /\ post_files = <<>>
    /\ missing_files = <<>>
    /\ diffed = <<>>
    /\ snapshot = files
    /\ completed = {}
    /\ captured = FALSE
    /\ executed = <<>>
    /\ disp = Pending
    /\ written = {}

\* the call _buildFileLists(data_dir, pre_phase, post_phase)
BuildFileListsCall ==
    /\ pc = "buildFileLists"
    /\ \E globPre \in GlobResults(files, pre_phase),
          globPost \in GlobResults(files, post_phase) :
          /\ pre_files' = BuildFileLists(globPre, globPost)[1]
          /\ post_files' = BuildFileLists(globPre, globPost)[2]
          /\ missing_files' = BuildFileLists(globPre, globPost)[3]
    /\ pc' = "built"
    /\ UNCHANGED << files, dirExists, gi, ci, fi, write_to_file, captured,
                    executed, disp, written, pre_phase, diffed >>
    /\ histUnchanged /\ optsUnchanged

NextMatch == BuildFileListsCall

SpecMatch == InitMatch /\ [][NextMatch]_vars

----------------------------------------------------------------------------
(* Notions the properties are stated with *)

Range(s) == { s[i] : i \in DOMAIN s }

\* the group (020) and world (002) write bits of a mode
GroupWritable(m) == (m \div 16) % 2 = 1
OtherWritable(m) == (m \div 2) % 2 = 1

\* the names a capture run for phase ph may write: <outfile>.ph for the
\* groups of the spec and <basename>.ph for its file list
RunNames(ph) ==
    { Join(Groups[g].outfile, ph) : g \in DOMAIN Groups } \cup
    { Join(Basename(FileList[f]), ph) : f \in DOMAIN FileList }

\* the file is as the invocation found it
SameFile(n) ==
    IF IsFile(snapshot, n) THEN IsFile(files, n) /\ files[n] = snapshot[n]
                           ELSE ~IsFile(files, n)

\* the base names of the artifacts of phase ph: the names that end in
\* '.<ph>', with that suffix taken off
BaseNames(fs, ph) ==
    { SubSeq(n, 1, Len(n) - Len(ph) - 1) :
        n \in { m \in DOMAIN fs : EndsWith(m, <<Dot>> \o ph) } }

\* the entries of executed that belong to group g
ExecutedOf(g) == SelectSeq(executed, LAMBDA e : e.g = g)

\* what the commands of group g that exited 0 printed in this run, in order
GroupOutputs(g) ==
    [i \in 1..Len(SelectSeq(ExecutedOf(g), LAMBDA e : e.rc = 0)) |->
        StdoutPiece(SelectSeq(ExecutedOf(g), LAMBDA e : e.rc = 0)[i].stdout)]

\* group g wrote its artifact in this run
Wrote(g) == << <<"group", g>>, Outfile(Groups[g], phase) >> \in written

\* nothing that comes after group g in the run wrote to g's artifact
LastWriter(g) ==
    \A w \in written :
        w[2] = Outfile(Groups[g], phase) => (w[1][1] = "group" /\ w[1][2] <= g)

----------------------------------------------------------------------------
(* C1 *)

\* C1 (idempotence of capture): once a capture run for a phase has completed,
\* a capture run for the same phase without overwrite leaves every artifact
\* of the phase, <outfile>.P and <basename>.P, as it found it.
C1_Idempotent ==
    (captured /\ ~overwrite /\ phase \in completed) =>
        \A n \in RunNames(phase) : IsFile(snapshot, n) => SameFile(n)

----------------------------------------------------------------------------
(* C2 *)

\* C2 (phase matching): the base names are the names ending in '.A' / '.B'
\* with that suffix stripped; matched is their intersection and the missing
\* files are the two differences.
C2_PhaseMatching ==
    pc = "built" =>
        /\ Range(pre_files) = BaseNames(files, pre_phase)
        /\ Range(post_files) = BaseNames(files, post_phase)
        /\ Range(MatchedFiles(pre_files, post_files)) =
              BaseNames(files, pre_phase) \cap BaseNames(files, post_phase)
        /\ Range(missing_files) =
              (BaseNames(files, pre_phase) \ BaseNames(files, post_phase)) \cup
              (BaseNames(files, post_phase) \ BaseNames(files, pre_phase))

----------------------------------------------------------------------------
(* C3 *)

\* C3 (diff loop completeness): when the diff procedure has run, diff was
\* invoked exactly once for every base name with an artifact in both phases,
\* on <base>.A and <base>.B, and for nothing else.
C3_DiffEveryPair ==
    (pre_phase # Unset /\ pc \in Terminal) =>
        /\ \A b \in BaseNames(files, pre_phase) \cap BaseNames(files, phase) :
              Cardinality({ i \in DOMAIN diffed :
                  diffed[i] = << Join(b, pre_phase), Join(b, phase) >> }) = 1
        /\ \A i \in DOMAIN diffed :
              \E b \in BaseNames(files, pre_phase) \cap BaseNames(files, phase) :
                  diffed[i] = << Join(b, pre_phase), Join(b, phase) >>

----------------------------------------------------------------------------
(* C4 *)

\* C4 (config rejection): with a group-writable or world-writable config
\* file, loading fails: the run exits 1 before any command is executed or
\* file copied, and the data directory holds what it held.
C4_RejectsOpenConfig ==
    ( /\ GroupWritable(cfgMode) \/ OtherWritable(cfgMode)
      /\ phase # NoPhase
      /\ pc \notin {"idle", "loadConfig"} ) =>
        (pc = "exit1" /\ executed = <<>> /\ files = snapshot)

----------------------------------------------------------------------------
(* C5 *)

\* C5 (command failure is recorded): while a group is run, its artifact
\* holds the header and then one piece for every command executed so far,
\* in order: the output of a command that exited 0, a record of the failure
\* of one that did not.
C5_FailureRecorded ==
    (pc = "exec" /\ ci > 1) =>
        /\ \A i \in 1..(ci - 1) : ExecutedOf(gi)[i].c = i
        /\ IsFile(files, Outfile(Groups[gi], phase))
        /\ Len(files[Outfile(Groups[gi], phase)]) = 1 + Len(ExecutedOf(gi))

----------------------------------------------------------------------------
(* C6 *)

\* C6 (overwrite semantics): when a capture run with overwrite has returned,
\* the artifact of every group it ran (and that nothing later in the run
\* wrote over) is exactly the group's header followed by what the group's
\* commands printed in this run, in exec order; nothing of an earlier run is
\* left in it.
C6_OverwriteReplaces ==
    (captured /\ overwrite) =>
        \A g \in DOMAIN Groups :
            (disp[g] = "ran" /\ Len(Groups[g].exec) > 0 /\ LastWriter(g)) =>
                /\ IsFile(files, Outfile(Groups[g], phase))
                /\ files[Outfile(Groups[g], phase)] =
                      <<Header(Groups[g])>> \o GroupOutputs(g)

\* a second run with overwrite has replaced an artifact of the first by
\* different text
C6_Witness ==
    /\ captured /\ overwrite /\ phase \in completed
    /\ \E g \in DOMAIN Groups :
          /\ disp[g] = "ran" /\ LastWriter(g)
          /\ IsFile(snapshot, Outfile(Groups[g], phase))
          /\ Len(snapshot[Outfile(Groups[g], phase)]) > 1
          /\ Len(GroupOutputs(g)) > 0
          /\ files[Outfile(Groups[g], phase)] # snapshot[Outfile(Groups[g], phase)]

----------------------------------------------------------------------------
(* C7 *)

----------------------------------------------------------------------------
(* C8 *)

\* C8 (require gating): a group is passed over for its 'require' exactly
\* when the key is set and the path does not exist; the run then executes
\* none of its commands and the group writes nothing (its artifact is as the
\* run found it unless another entry of the spec writes the same name), the
\* loop goes on past it, and a run that returns has processed every group
\* and the whole file list.
C8_RequireGating ==
    /\ \A g \in DOMAIN Groups :
          /\ disp[g] # "pending" =>
                (disp[g] = "reqskip" <=>
                    (Groups[g].require # NoRequire /\
                     Groups[g].require \notin existing))
          /\ disp[g] = "reqskip" =>
                /\ ExecutedOf(g) = <<>>
                /\ ~Wrote(g)
                /\ (\A w \in written : w[2] # Outfile(Groups[g], phase)) =>
                      SameFile(Outfile(Groups[g], phase))
                /\ gi > g
    /\ captured =>
          /\ \A g \in DOMAIN Groups : disp[g] # "pending"
          /\ fi = Len(FileList) + 1

\* a run passed over a group for its 'require', ran a later group and copied
\* a file, and returned
C8_Witness ==
    /\ captured
    /\ \E g \in DOMAIN Groups :
          /\ disp[g] = "reqskip"
          /\ \E g2 \in DOMAIN Groups : g2 > g /\ disp[g2] = "ran" /\ Wrote(g2)
    /\ \E w \in written : w[1][1] = "file"

----------------------------------------------------------------------------
(* C9 *)

\* C9 (capture never deletes, and keeps to its phase): every file the
\* invocation found is still there, and a file that is not named
\* <outfile>.P or <basename>.P for an entry of the spec holds what it held.
C9_NeverDeletes ==
    \A n \in DOMAIN snapshot :
        /\ IsFile(files, n)
        /\ n \notin RunNames(phase) => files[n] = snapshot[n]

\* a capture run has returned, it changed the data directory, and the
\* directory held a file of another phase when it began
C9_Witness ==
    /\ captured
    /\ files # snapshot
    /\ \E n \in DOMAIN snapshot : n \notin RunNames(phase)

----------------------------------------------------------------------------
(* C10 *)

\* C10 (group write atomicity): whenever the artifact a group wrote in the
\* current run is on disk, every command of the group's exec list has been
\* executed.
C10_GroupWrittenOnce ==
    \A g \in DOMAIN Groups :
        (Wrote(g) /\ IsFile(files, Outfile(Groups[g], phase))) =>
            \A c \in 1..Len(Groups[g].exec) :
                \E i \in DOMAIN executed : executed[i].g = g /\ executed[i].c = c

====
